---------------------------- MODULE Spec2Model ----------------------------
(***************************************************************************)
(* Nexus-Knowledge backend: the retrieve / grade / generate workflow       *)
(* (Backend/app/agents/graph.py) and the websocket session relay that      *)
(* drives it (Backend/main.py, chat_socket).                               *)
(*                                                                         *)
(* Text is modelled as a sequence of one-character strings, so that        *)
(* concatenation, str.lower() and the substring test `a in b` are computed *)
(* and not assumed.  A dict (AgentState, a node's return value) is a       *)
(* function whose DOMAIN is the set of keys that are present.              *)
(***************************************************************************)
EXTENDS Integers, Sequences, FiniteSets, TLC

(* ------------------------------ bounds -------------------------------- *)
\* questions one session may ask before the model stops accepting input
MaxTurns == 1
\* longest documents list handed to grade_documents_node in isolation
MaxDocs == 2
\* node applications in a row when the nodes are exercised in isolation
MaxApply == 2

(* ------------------------------- text --------------------------------- *)
RECURSIVE Concat(_)
\* "".join(parts)
Concat(parts) ==
    IF parts = <<>> THEN <<>> ELSE Head(parts) \o Concat(Tail(parts))

RECURSIVE Join(_, _)
\* sep.join(parts)
Join(sep, parts) ==
    IF parts = <<>> THEN <<>>
    ELSE IF Len(parts) = 1 THEN parts[1]
    ELSE parts[1] \o sep \o Join(sep, Tail(parts))

\* str.lower() on one character (the letters the model's texts use)
LowerChar(c) ==
    CASE c = "Y" -> "y"
      [] c = "E" -> "e"
      [] c = "S" -> "s"
      [] c = "N" -> "n"
      [] c = "O" -> "o"
      [] OTHER -> c

\* str.lower()
Lower(s) == [i \in 1..Len(s) |-> LowerChar(s[i])]

\* Python's `sub in s`
Contains(sub, s) ==
    \E i \in 0..(Len(s) - Len(sub)) : SubSeq(s, i + 1, i + Len(sub)) = sub

\* Python's s[:n]
Take(s, n) == SubSeq(s, 1, IF Len(s) < n THEN Len(s) ELSE n)

(* --------------------------- string literals -------------------------- *)
YES == <<"y","e","s">>
RATE_429 == <<"4","2","9">>
RESOURCE_EXHAUSTED == <<"R","E","S","O","U","R","C","E","_","E","X","H","A","U","S","T","E","D">>
\* main.py:281; the leading warning emoji is written as the one symbol "(!)"
ADVISORY == <<"(!)"," ","R","a","t","e"," ","l","i","m","i","t"," ","r","e","a","c","h","e","d","."," ","P","l","e","a","s","e"," ","w","a","i","t"," ","a","b","o","u","t"," ","6","0"," ","s","e","c","o","n","d","s"," ","b","e","f","o","r","e"," ","a","s","k","i","n","g"," ","a","n","o","t","h","e","r"," ","q","u","e","s","t","i","o","n",".">>
ERROR_PROCESSING == <<"E","r","r","o","r"," ","p","r","o","c","e","s","s","i","n","g"," ","r","e","q","u","e","s","t",":"," ">>
ERROR_PREFIX == <<"E","r","r","o","r",":"," ">>
THINKING == <<"T","h","i","n","k","i","n","g",".",".",".">>
ELLIPSIS == <<".",".",".">>
GRADE_P1 == <<"I","s"," ","t","h","i","s"," ","d","o","c","u","m","e","n","t"," ","r","e","l","e","v","a","n","t"," ","t","o",":"," ">>
GRADE_P2 == <<"?"," ","A","n","s","w","e","r"," ","o","n","l","y"," ","'","y","e","s","'"," ","o","r"," ","'","n","o","'",".","\n","D","o","c",":"," ">>
GEN_P1 == <<"B","a","s","e","d"," ","o","n"," ","t","h","e"," ","f","o","l","l","o","w","i","n","g"," ","c","o","n","t","e","x","t",","," ","a","n","s","w","e","r"," ","t","h","e"," ","q","u","e","s","t","i","o","n",".","\n","\n","C","o","n","t","e","x","t",":"," ">>
GEN_P2 == <<"\n","\n","Q","u","e","s","t","i","o","n",":"," ">>
GEN_P3 == <<"\n","\n","A","n","s","w","e","r",":">>
DOC_SEP == <<"\n","\n">>
TITLE_MAX == 50

(* ------------------------- the model's inputs ------------------------- *)
\* questions a client sends
Q_HI == <<"h","i">>
Questions == {Q_HI}

\* chunk texts held by the embedding index
DOC_A == <<"a","l","f","a">>
DOC_B == <<"b","e","t","a">>
Chunks == {DOC_A, DOC_B}

\* texts of the exceptions the collaborators raise
E_QUOTA == <<"4","2","9"," ","q","u","o","t","a">>
E_EXHAUSTED == RESOURCE_EXHAUSTED
E_TIMEOUT == <<"t","i","m","e","o","u","t">>
E_DB == <<"d","b"," ","d","o","w","n">>

\* One call of llm.invoke: the content fragments the chat model streams, and
\* the exception that ends the call (err = <<>> when it returns normally,
\* <<message>> when it raises).  A fragment may be empty, and a call may
\* raise after it has streamed some fragments.
Ok(toks) == [tokens |-> toks, err |-> <<>>]
Fail(toks, msg) == [tokens |-> toks, err |-> <<msg>>]
LLMOutcomes ==
    { Ok(<< <<"Y">>, <<"e","s">>, <<>> >>),
      Ok(<< <<"n","o">> >>),
      Ok(<< <<>> >>),
      Fail(<<>>, E_EXHAUSTED),
      Fail(<< <<"n","o">> >>, E_TIMEOUT) }

(* ------------------- app/agents/graph.py: the nodes ------------------- *)
\* dict.get(key) is truthy
Truthy(state, key) == key \in DOMAIN state /\ state[key] # <<>>

\* the state after a node's returned dict has been written to the channels
Merge(state, update) ==
    [k \in (DOMAIN state) \cup (DOMAIN update) |->
        IF k \in DOMAIN update THEN update[k] ELSE state[k]]

\* invoke_llm returns response.content, the concatenation of the fragments
invoke_llm(out) == Concat(out.tokens)

\* retrieve_node, given the page contents the retriever returned
retrieve_node(state, docs) ==
    [documents |-> docs, run_web_search |-> FALSE]

\* the f-string of grade_documents_node
grade_prompt(state, doc) == GRADE_P1 \o state["question"] \o GRADE_P2 \o doc

\* fail-closed: the except branch without its append (line 44)
grade_keep_FailClosed(out) ==
    out.err = <<>> /\ Contains(YES, Lower(invoke_llm(out)))

\* the judgment compared without lower() (line 40)
grade_keep_CaseSensitive(out) ==
    IF out.err = <<>>
    THEN Contains(YES, invoke_llm(out))
    ELSE TRUE

\* one iteration of the for loop of grade_documents_node
grade_keep(out) ==
    IF out.err = <<>>
    THEN Contains(YES, Lower(invoke_llm(out)))
    ELSE TRUE

RECURSIVE grade_loop(_, _)
\* filtered_docs after the for loop; outs[i] is the model call made for
\* documents[i]
grade_loop(documents, outs) ==
    IF documents = <<>> THEN <<>>
    ELSE (IF grade_keep(Head(outs)) THEN <<Head(documents)>> ELSE <<>>)
         \o grade_loop(Tail(documents), Tail(outs))

\* the local variable `search` when grade_documents_node returns
grade_search(state, outs) == grade_loop(state["documents"], outs) = <<>>

\* the dict grade_documents_node returns
grade_documents_node(state, outs) ==
    [documents |-> grade_loop(state["documents"], outs)]

\* the prompts grade_documents_node sends to the model, in order
grade_prompts(state) ==
    [i \in 1..Len(state["documents"]) |->
        grade_prompt(state, state["documents"][i])]

\* the f-string of generative_node without its context
generate_prompt_NoContext(state) ==
    GEN_P1 \o GEN_P2 \o state["question"] \o GEN_P3

\* the f-string of generative_node
generate_prompt(state) ==
    GEN_P1 \o Join(DOC_SEP, state["documents"]) \o GEN_P2
        \o state["question"] \o GEN_P3

\* the guard of line 53 left out
generate_skips_Never(state) == FALSE

\* generative_node takes the early return
generate_skips(state) == Truthy(state, "answer")

\* the except branch returning an empty answer instead of the error text
generative_node_EmptyOnError(state, out) ==
    IF generate_skips(state) THEN state
    ELSE IF out.err = <<>>
         THEN [answer |-> invoke_llm(out)]
         ELSE [answer |-> <<>>]

\* the value generative_node returns
generative_node(state, out) ==
    IF generate_skips(state) THEN state
    ELSE IF out.err = <<>>
         THEN [answer |-> invoke_llm(out)]
         ELSE [answer |-> ERROR_PREFIX \o out.err[1]]

\* the prompts generative_node sends to the model
generate_prompts(state) ==
    IF generate_skips(state) THEN <<>> ELSE <<generate_prompt(state)>>

\* a router that goes back to retrieval when nothing passed the filter
decide_to_generate_Retry(state) ==
    IF state["documents"] = <<>> THEN "retrieve" ELSE "generate"

\* decide_to_generate
decide_to_generate(state) == "generate"

(* ------------- app/core/rag_engine.py: the text splitter --------------- *)
\* the arguments of RecursiveCharacterTextSplitter (lines 101-106)
CHUNK_SIZE == 400
CHUNK_OVERLAP == 80
SEPARATORS == << <<"\n","\n","\n">>, <<"\n","\n">>, <<"\n">>, <<".", " ">>, <<" ">>, <<>> >>

\* str.strip(): leading and trailing whitespace removed
Whitespace == {" ", "\n", "\t"}
Strip(s) ==
    LET solid == { i \in DOMAIN s : s[i] \notin Whitespace }
    IN  IF solid = {} THEN <<>>
        ELSE SubSeq(s, CHOOSE i \in solid : \A j \in solid : i <= j,
                       CHOOSE i \in solid : \A j \in solid : j <= i)

RECURSIVE CutsFrom(_, _, _)
\* where re.split finds the separator, left to right without overlap, from
\* position `from` on
CutsFrom(text, sep, from) ==
    LET at == { i \in from..(Len(text) - Len(sep) + 1) :
                   SubSeq(text, i, i + Len(sep) - 1) = sep }
    IN  IF at = {} THEN <<>>
        ELSE LET first == CHOOSE i \in at : \A j \in at : i <= j
             IN  <<first>> \o CutsFrom(text, sep, first + Len(sep))

\* no cut at all: the text is its only piece
SplitBounds_Whole(text, sep) == <<1, Len(text) + 1>>

\* _split_text_with_regex with keep_separator = True: the text is cut in
\* front of every occurrence of the separator (into single characters when
\* the separator is the empty string) and empty pieces are left out.  The
\* pieces are consecutive stretches of the text, given here by their bounds:
\* piece i is text[bounds[i] .. bounds[i+1] - 1].
SplitBounds(text, sep) ==
    IF text = <<>> THEN <<1>>
    ELSE IF sep = <<>> THEN [i \in 1..(Len(text) + 1) |-> i]
    ELSE LET cuts == CutsFrom(text, sep, 1)
         IN  (IF cuts # <<>> /\ cuts[1] = 1 THEN <<>> ELSE <<1>>)
                \o cuts \o <<Len(text) + 1>>

\* _join_docs: the pieces joined (each keeps its separator) and stripped;
\* nothing when that leaves the empty string
JoinDocs(joined) ==
    LET doc == Strip(joined)
    IN  IF doc = <<>> THEN <<>> ELSE <<doc>>

\* the least element of a non-empty set of numbers
Least(S) == CHOOSE i \in S : \A j \in S : i <= j

RECURSIVE MergeFrom(_, _, _, _, _)
\* the for loop of _merge_splits over the pieces first..last, taken up where
\* current_doc holds the pieces a..c-1 and piece c is the next one.  The
\* loop appends pieces until one would take the total over chunk_size; then
\* current_doc is emitted and pieces leave its front (the while loop) until
\* what stays is within chunk_overlap and leaves room for the next piece.
MergeFrom(text, bounds, a, c, last) ==
    LET emit == { j \in c..last : j > a /\ bounds[j + 1] - bounds[a] > CHUNK_SIZE }
    IN  IF emit = {}
        THEN JoinDocs(SubSeq(text, bounds[a], bounds[last + 1] - 1))
        ELSE LET j == Least(emit)
                 len == bounds[j + 1] - bounds[j]
                 stay == { x \in a..j :
                             LET total == bounds[j] - bounds[x]
                             IN  ~ (\/ total > CHUNK_OVERLAP
                                    \/ total + len > CHUNK_SIZE /\ total > 0) }
             IN  JoinDocs(SubSeq(text, bounds[a], bounds[j] - 1))
                    \o MergeFrom(text, bounds, Least(stay), j + 1, last)

\* _merge_splits of the pieces first..last
MergeSplits(text, bounds, first, last) ==
    IF first > last THEN <<>> ELSE MergeFrom(text, bounds, first, first, last)

RECURSIVE SplitText(_, _)
RECURSIVE SplitLoop(_, _, _, _)
\* the for loop of _split_text from piece i on: runs of pieces shorter than
\* chunk_size are merged, a piece that is not shorter is split again with
\* the finer separators (or kept whole when there is none left)
SplitLoop(text, bounds, i, new_separators) ==
    LET last == Len(bounds) - 1
        long == { j \in i..last : bounds[j + 1] - bounds[j] >= CHUNK_SIZE }
    IN  IF long = {} THEN MergeSplits(text, bounds, i, last)
        ELSE LET j == Least(long)
                 s == SubSeq(text, bounds[j], bounds[j + 1] - 1)
             IN  MergeSplits(text, bounds, i, j - 1)
                    \o (IF new_separators = <<>> THEN <<s>>
                        ELSE SplitText(s, new_separators))
                    \o SplitLoop(text, bounds, j + 1, new_separators)

\* RecursiveCharacterTextSplitter._split_text: the first separator of the
\* list that occurs in the text is used, the ones after it are left for the
\* pieces that are still too long
SplitText(text, separators) ==
    LET found == { i \in DOMAIN separators :
                      separators[i] = <<>> \/ Contains(separators[i], text) }
        k == IF found = {} THEN Len(separators) ELSE Least(found)
        separator == separators[k]
        new_separators == IF found = {} \/ separator = <<>> THEN <<>>
                          ELSE SubSeq(separators, k + 1, Len(separators))
    IN  SplitLoop(text, SplitBounds(text, separator), 1, new_separators)

\* text_splitter.split_text(page_content)
split_text(text) == SplitText(text, SEPARATORS)

(* --------------- app/core/rag_engine.py: ingestion --------------------- *)
\* str(n) for a natural number
RECURSIVE Str(_)
Str(n) ==
    LET Digit(d) == <<"0","1","2","3","4","5","6","7","8","9">>[d + 1]
    IN  IF n < 10 THEN <<Digit(n)>> ELSE Str(n \div 10) \o <<Digit(n % 10)>>

\* the texts of the exceptions and of the return value
E_OCR_MISSING == <<"O","C","R"," ","l","i","b","r","a","r","i","e","s"," ","n","o","t"," ","i","n","s","t","a","l","l","e","d","."," ","P","l","e","a","s","e"," ","i","n","s","t","a","l","l"," ","p","d","f","2","i","m","a","g","e"," ","a","n","d"," ","p","y","t","e","s","s","e","r","a","c","t",".">>
\* f"OCR extraction failed: {str(e)}. Make sure ..." (line 80)
OcrFailed(e) ==
    <<"O","C","R"," ","e","x","t","r","a","c","t","i","o","n"," ","f","a","i","l","e","d",":"," ">>
        \o e \o
    <<"."," ","M","a","k","e"," ","s","u","r","e"," ","T","e","s","s","e","r","a","c","t"," ","O","C","R"," ","a","n","d"," ","P","o","p","p","l","e","r"," ","a","r","e"," ","i","n","s","t","a","l","l","e","d",".">>
E_OCR_WRAPPED == <<"P","D","F"," ","h","a","s"," ","n","o"," ","e","x","t","r","a","c","t","a","b","l","e"," ","t","e","x","t"," ","a","n","d"," ","O","C","R"," ","f","a","i","l","e","d",":"," ">>
E_NO_TEXT == <<"C","o","u","l","d"," ","n","o","t"," ","e","x","t","r","a","c","t"," ","a","n","y"," ","t","e","x","t"," ","f","r","o","m"," ","P","D","F"," ","(","t","r","i","e","d"," ","b","o","t","h"," ","r","e","g","u","l","a","r"," ","e","x","t","r","a","c","t","i","o","n"," ","a","n","d"," ","O","C","R",")">>
E_NO_CHUNKS == <<"C","o","u","l","d"," ","n","o","t"," ","e","x","t","r","a","c","t"," ","a","n","y"," ","t","e","x","t"," ","c","h","u","n","k","s"," ","f","r","o","m"," ","t","h","e"," ","P","D","F">>
\* f"Successfully processed {len(chunks)} text chunks" (line 121)
SuccessSummary(n) ==
    <<"S","u","c","c","e","s","s","f","u","l","l","y"," ","p","r","o","c","e","s","s","e","d"," ">>
        \o Str(n) \o <<" ","t","e","x","t"," ","c","h","u","n","k","s">>
\* what a failing pdf2image / pytesseract call says
E_POPPLER == <<"n","o"," ","p","o","p","p","l","e","r">>

\* n letters, named by their place a+1 .. a+n in the page so that no letter
\* occurs twice and the stretch two chunks share can be read off their text
Letters(a, n) == [i \in 1..n |-> ToString(a + i)]

\* A PDF file: pages[i] is the text PyPDFLoader extracts from page i, and
\* scans[i] the text pytesseract reads off the image of page i.
Pdf(pages, scans) == [pages |-> pages, scans |-> scans]

\* `text.strip()` is falsy
Blank(text) == Strip(text) = <<>>

\* How an OCR attempt goes: the libraries are missing (OCR_AVAILABLE is
\* False, lines 12-18), the conversion or the recognition raises, or it works.
OcrOutcomes == {"unavailable", "raises", "works"}

\* extract_text_with_ocr (lines 40-80): the recognized page texts that are
\* not blank, or the ValueError it raises
extract_text_with_ocr(pdf, ocr) ==
    IF ocr = "unavailable"
    THEN [raised |-> <<E_OCR_MISSING>>, documents |-> <<>>]
    ELSE IF ocr = "raises"
    THEN [raised |-> <<OcrFailed(E_POPPLER)>>,
          documents |-> <<>>]
    ELSE [raised |-> <<>>,
          documents |-> SelectSeq(pdf.scans, LAMBDA text : ~ Blank(text))]

\* OCR tried on every document
needs_ocr_Always(text_documents) == TRUE

\* `if not text_documents` (line 91)
needs_ocr(text_documents) == text_documents = <<>>

\* text_splitter.split_documents: the chunks of every page, page after page
split_documents(text_documents) ==
    Concat([i \in 1..Len(text_documents) |-> split_text(text_documents[i])])

\* process_pdf (lines 82-121), given how an OCR attempt goes: the exception
\* it raises if any, the chunks it hands to the index, its return value, and
\* whether it called extract_text_with_ocr
process_pdf(pdf, ocr) ==
    LET direct == SelectSeq(pdf.pages, LAMBDA text : ~ Blank(text))
        called == needs_ocr(direct)
        recognized == extract_text_with_ocr(pdf, ocr)
        text_documents == IF called THEN recognized.documents ELSE direct
        chunks == split_documents(text_documents)
        raise(msg) == [raised |-> <<msg>>, added |-> <<>>, result |-> <<>>,
                       ocr_called |-> called]
    IN  IF called /\ recognized.raised # <<>>
        THEN raise(E_OCR_WRAPPED \o recognized.raised[1])
        ELSE IF text_documents = <<>> THEN raise(E_NO_TEXT)
        ELSE IF chunks = <<>> THEN raise(E_NO_CHUNKS)
        ELSE [raised |-> <<>>, added |-> chunks,
              result |-> SuccessSummary(Len(chunks)),
              ocr_called |-> called]

\* a fresh collection on every ingestion
from_documents_Fresh(idx, chunks) == chunks

\* Chroma.from_documents on the persisted collection: the records are added
\* under new ids, whatever the collection holds already
from_documents(idx, chunks) == idx \o chunks

(* ---------------- app/core/rag_engine.py: the retriever ---------------- *)
\* search_kwargs k of get_retriever
RETRIEVER_K == 1

Min(a, b) == IF a < b THEN a ELSE b

\* The page contents get_retriever().invoke(question) can return: k distinct
\* records of the index (all of them when the index holds fewer), in the
\* ranking's order.  The embedding similarity that ranks them is external, so
\* every choice is possible.
RetrieverResults(idx) ==
    LET n == Min(RETRIEVER_K, Len(idx))
        picks == { f \in [1..n -> DOMAIN idx] :
                      \A i, j \in 1..n : i # j => f[i] # f[j] }
    IN  { [i \in 1..n |-> idx[f[i]]] : f \in picks }

\* texts of the exceptions a failing retrieval raises
RetrieverErrors == {E_QUOTA, E_TIMEOUT}

(* ------------------------------- state -------------------------------- *)
Sessions == {"s1", "s2"}
ConvIds == {"c1", "c2"}
NEW_CHAT == <<"N","e","w"," ","C","h","a","t">>

VARIABLES
    conversations,  \* ids of the rows of table conversations
    titles,         \* Conversation.title, by id
    messages,       \* rows of table messages, in creation order
    index,          \* page contents of the records of the embedding index
    pc,             \* where each chat_socket coroutine stands
    chan,           \* the client's end of each websocket: "open" or "gone"
    sess,           \* the locals of each chat_socket coroutine
    wf,             \* the run of agent_graph each session is streaming
    pending,        \* events astream_events has produced, not yet consumed
    sent,           \* what send_json has delivered in the current turn
    turn,           \* bookkeeping of the current turn (history, not code)
    nodeIn,         \* a node function applied in isolation: its arguments
    nodeRes,        \* ... and its result
    files,          \* DATA_FOLDER: the uploaded files, by name
    http,           \* the latest call of an HTTP endpoint and its response
    env             \* what the clients and the services do in this run

vars == <<conversations, titles, messages, index, pc, chan, sess, wf,
          pending, sent, turn, nodeIn, nodeRes, files, http, env>>

dbVars == <<conversations, titles, messages>>
nodeVars == <<nodeIn, nodeRes>>
fileVars == <<files, http>>

(* ------------------------ table messages (ORM) ------------------------ *)
Message(cid, role, content) ==
    [conversation_id |-> cid, role |-> role, content |-> content]

RECURSIVE SelectSeq2(_, _)
\* the rows of a conversation, in order
SelectSeq2(rows, cid) ==
    IF rows = <<>> THEN <<>>
    ELSE (IF Head(rows).conversation_id = cid THEN <<Head(rows)>> ELSE <<>>)
         \o SelectSeq2(Tail(rows), cid)

\* Conversation.messages
MessagesOf(cid) == SelectSeq2(messages, cid)

\* query[:50] + ("..." if len(query) > 50 else "")
TitleFrom(query) ==
    Take(query, TITLE_MAX) \o (IF Len(query) > TITLE_MAX THEN ELLIPSIS ELSE <<>>)

(* ----------------------- events of astream_events --------------------- *)
ChainStart(name) == [event |-> "on_chain_start", name |-> name, content |-> <<>>]
ChainEnd(name) == [event |-> "on_chain_end", name |-> name, content |-> <<>>]
ModelStream(name, tok) ==
    [event |-> "on_chat_model_stream", name |-> name, content |-> tok]

\* the on_chat_model_stream events of one model call made inside node `name`
StreamOf(name, out) ==
    [i \in 1..Len(out.tokens) |-> ModelStream(name, out.tokens[i])]

\* ... of the calls of a node, in call order
StreamsOf(name, outs) ==
    Concat([i \in 1..Len(outs) |-> StreamOf(name, outs[i])])

(* --------------------- messages to the client ------------------------- *)
\* src is the node whose event made the relay send (history, not sent)
Status(src) == [type |-> "status", content |-> THINKING, src |-> src]
Chunk(content, src) == [type |-> "chunk", content |-> content, src |-> src]
End == [type |-> "end", content |-> <<>>, src |-> "relay"]

NoRun == [node |-> "none", state |-> [question |-> <<>>], trace |-> <<>>,
          exc |-> <<>>, gen |-> <<>>, grades |-> <<>>, prompts |-> <<>>,
          folder |-> {}]
NoLocals == [conversation_id |-> "c1", query |-> <<>>,
             assistant_response |-> <<>>, error_msg |-> <<>>,
             connection_closed |-> FALSE, close_called |-> FALSE, turns |-> 0]
NoTurn == [base |-> <<>>, db_failed |-> FALSE, user_saved |-> FALSE,
           existed |-> FALSE, over |-> FALSE]

(* ------------------- main.py: chat_socket, step by step --------------- *)
\* the exception types a failing websocket call raises
ChannelErrors == {"WebSocketDisconnect", "RuntimeError"}
E_CHAN == <<"c","l","o","s","e","d">>
\* the call of the storage block that raises, if any
DbFaults == {"ok", "get", "query", "commit", "close"}

\* the outer except clauses and the finally block (lines 290-300)
Closed(l, kind) ==
    [l EXCEPT !.connection_closed = (kind = "WebSocketDisconnect"),
              !.close_called = (kind # "WebSocketDisconnect")]

\* `"429" in error_msg or "RESOURCE_EXHAUSTED" in error_msg`
IsRateLimit(error_msg) ==
    Contains(RATE_429, error_msg) \/ Contains(RESOURCE_EXHAUSTED, error_msg)

\* the advisory never chosen
ErrorChunkContent_NoAdvisory(error_msg) == ERROR_PROCESSING \o error_msg

\* the content of the chunk the except block sends (lines 277-287)
ErrorChunkContent(error_msg) ==
    IF IsRateLimit(error_msg) THEN ADVISORY ELSE ERROR_PROCESSING \o error_msg

\* the event makes the loop body call send_json
NeedsSend(ev) ==
    \/ ev.event = "on_chain_start"
    \/ ev.event = "on_chat_model_stream" /\ ev.content # <<>>

\* the message the loop body sends for an event
MessageFor(ev) ==
    IF ev.event = "on_chain_start" THEN Status(ev.name)
    ELSE Chunk(ev.content, ev.name)

\* receive_text returns a question; the user Message is saved (lines 228-247)
\* and the run of the graph is started (line 250)
ReceiveQuestion(s) ==
    /\ pc[s] = "recv"
    /\ chan[s] = "open"
    /\ sess[s].turns < MaxTurns
    /\ \E q \in env.questions[s], db \in env.faults :
         LET cid == sess[s].conversation_id
             found == cid \in conversations
             commits == found /\ db \in {"ok", "close"}
             fatal == db \in {"get", "close"}
             l == [sess[s] EXCEPT !.query = q, !.assistant_response = <<>>,
                                  !.error_msg = <<>>, !.turns = @ + 1]
         IN
         /\ messages' = IF commits
                        THEN Append(messages, Message(cid, "user", q))
                        ELSE messages
         /\ titles' = IF commits /\ MessagesOf(cid) = <<>>
                      THEN [titles EXCEPT ![cid] = TitleFrom(q)]
                      ELSE titles
         /\ turn' = [turn EXCEPT ![s] =
                        [base |-> MessagesOf(cid), db_failed |-> db # "ok",
                         user_saved |-> commits, existed |-> found,
                         over |-> FALSE]]
         /\ sent' = [sent EXCEPT ![s] = <<>>]
         /\ IF fatal
            THEN /\ pc' = [pc EXCEPT ![s] = "closed"]
                 /\ sess' = [sess EXCEPT ![s] = Closed(l, "Exception")]
                 /\ wf' = [wf EXCEPT ![s] = NoRun]
                 /\ pending' = [pending EXCEPT ![s] = <<>>]
            ELSE /\ pc' = [pc EXCEPT ![s] = "stream"]
                 /\ sess' = [sess EXCEPT ![s] = l]
                 /\ wf' = [wf EXCEPT ![s] =
                             [NoRun EXCEPT !.node = "retrieve",
                                           !.state = [question |-> q]]]
                 /\ pending' = [pending EXCEPT ![s] = <<ChainStart("LangGraph")>>]
    /\ UNCHANGED <<conversations, index, chan, nodeVars, fileVars, env>>

\* receive_text raises WebSocketDisconnect (line 290)
ReceiveDisconnect(s) ==
    /\ pc[s] = "recv"
    /\ chan[s] = "gone"
    /\ pc' = [pc EXCEPT ![s] = "closed"]
    /\ sess' = [sess EXCEPT ![s] = Closed(@, "WebSocketDisconnect")]
    /\ UNCHANGED <<dbVars, index, chan, wf, pending, sent, turn, nodeVars, fileVars, env>>

\* the coroutine of s, in chat_socket or in chat_socket_legacy, is in its
\* `async for` loop over astream_events (lines 250 and 314)
Streaming(s) == pc[s] \in {"stream", "legacy_stream"}

\* the coroutine of s is about to call receive_text or send_json
AtChannelCall(s) ==
    \/ pc[s] \in {"recv", "err_chunk", "err_end",
                  "legacy_recv", "legacy_err_chunk", "legacy_err_end"}
    \/ Streaming(s) /\ pending[s] # <<>> /\ NeedsSend(Head(pending[s]))
    \/ Streaming(s) /\ pending[s] = <<>> /\ wf[s].node = "done"

\* the client goes away; the coroutine notices at its next channel call, so
\* the step is taken right before that call
ClientDisconnect(s) ==
    /\ AtChannelCall(s)
    /\ s \in env.leavers
    /\ chan[s] = "open"
    /\ chan' = [chan EXCEPT ![s] = "gone"]
    /\ UNCHANGED <<dbVars, index, pc, sess, wf, pending, sent, turn, nodeVars, fileVars, env>>

(* the graph: one action per node; the events of a node are produced in     *)
(* one piece and consumed one by one                                        *)
WfRetrieve(s) ==
    /\ Streaming(s)
    /\ pending[s] = <<>>
    /\ wf[s].node = "retrieve"
    /\ \/ \E docs \in RetrieverResults(index) :
            /\ wf' = [wf EXCEPT ![s] =
                        [@ EXCEPT !.node = "grade",
                                  !.state = Merge(@, retrieve_node(@, docs)),
                                  !.folder = DOMAIN files,
                                  !.trace = Append(@, "retrieve")]]
            /\ pending' = [pending EXCEPT ![s] =
                             <<ChainStart("retrieve"), ChainEnd("retrieve")>>]
       \/ \E e \in env.errors :
            /\ wf' = [wf EXCEPT ![s] =
                        [@ EXCEPT !.node = "raised", !.exc = <<e>>,
                                  !.trace = Append(@, "retrieve")]]
            /\ pending' = [pending EXCEPT ![s] = <<ChainStart("retrieve")>>]
    /\ UNCHANGED <<dbVars, index, pc, chan, sess, sent, turn, nodeVars, fileVars, env>>

WfGrade(s) ==
    /\ Streaming(s)
    /\ pending[s] = <<>>
    /\ wf[s].node = "grade"
    /\ \E outs \in [1..Len(wf[s].state["documents"]) -> env.outcomes[s]] :
         LET after == Merge(wf[s].state, grade_documents_node(wf[s].state, outs))
         IN
         /\ wf' = [wf EXCEPT ![s] =
                     [@ EXCEPT !.node = decide_to_generate(after),
                               !.state = after,
                               !.grades = outs,
                               !.trace = Append(@, "grade")]]
         /\ pending' = [pending EXCEPT ![s] =
                          <<ChainStart("grade")>> \o StreamsOf("grade", outs)
                              \o <<ChainEnd("grade")>>]
    /\ UNCHANGED <<dbVars, index, pc, chan, sess, sent, turn, nodeVars, fileVars, env>>

WfGenerate(s) ==
    /\ Streaming(s)
    /\ pending[s] = <<>>
    /\ wf[s].node = "generate"
    /\ \E out \in env.outcomes[s] :
         /\ wf' = [wf EXCEPT ![s] =
                     [@ EXCEPT !.node = "done",
                               !.state = Merge(@, generative_node(@, out)),
                               !.gen = <<out>>,
                               !.prompts = generate_prompts(wf[s].state),
                               !.trace = Append(@, "generate")]]
         /\ pending' = [pending EXCEPT ![s] =
                          <<ChainStart("generate")>>
                              \o (IF generate_skips(wf[s].state) THEN <<>>
                                  ELSE StreamOf("generate", out))
                              \o <<ChainEnd("generate"), ChainEnd("LangGraph")>>]
    /\ UNCHANGED <<dbVars, index, pc, chan, sess, sent, turn, nodeVars, fileVars, env>>

\* one frame for every session: assistant_response as a module-level global
FrameOf_Global(s) == "s1"

\* the coroutine frame that holds the locals session s reads and writes:
\* each call of chat_socket has its own (lines 226-247)
FrameOf(s) == s

\* the overwrite a missing `+` would make of line 259
Accumulate_Overwrite(response, content) == content

\* `assistant_response += content` (line 259)
Accumulate(response, content) == response \o content

\* one iteration of the async for loop (lines 250-260)
RelayEvent(s) ==
    /\ pc[s] = "stream"
    /\ pending[s] # <<>>
    /\ LET ev == Head(pending[s]) IN
       IF NeedsSend(ev) /\ chan[s] = "gone"
       THEN \* send_json raises inside the try block: line 276 catches it
            /\ pc' = [pc EXCEPT ![s] = "err_chunk"]
            /\ sess' = [sess EXCEPT ![s].error_msg = E_CHAN]
            /\ wf' = [wf EXCEPT ![s].node = "aborted"]
            /\ pending' = [pending EXCEPT ![s] = <<>>]
            /\ UNCHANGED sent
       ELSE /\ pending' = [pending EXCEPT ![s] = Tail(@)]
            /\ IF NeedsSend(ev)
               THEN /\ sent' = [sent EXCEPT ![s] = Append(@, MessageFor(ev))]
                    /\ sess' = [sess EXCEPT ![FrameOf(s)].assistant_response =
                                  IF ev.event = "on_chat_model_stream"
                                  THEN Accumulate(@, ev.content) ELSE @]
               ELSE UNCHANGED <<sent, sess>>
            /\ UNCHANGED <<pc, wf>>
    /\ UNCHANGED <<dbVars, index, chan, turn, nodeVars, fileVars, env>>

\* the run raised: astream_events re-raises in the loop (line 276)
RelayRaise(s) ==
    /\ pc[s] = "stream"
    /\ pending[s] = <<>>
    /\ wf[s].node = "raised"
    /\ pc' = [pc EXCEPT ![s] = "err_chunk"]
    /\ sess' = [sess EXCEPT ![s].error_msg = wf[s].exc[1]]
    /\ UNCHANGED <<dbVars, index, chan, wf, pending, sent, turn, nodeVars, fileVars, env>>

\* the loop is exhausted: send end, save the assistant Message (lines 262-274)
RelayEnd(s) ==
    /\ pc[s] = "stream"
    /\ pending[s] = <<>>
    /\ wf[s].node = "done"
    /\ IF chan[s] = "gone"
       THEN /\ pc' = [pc EXCEPT ![s] = "err_chunk"]
            /\ sess' = [sess EXCEPT ![s].error_msg = E_CHAN]
            /\ UNCHANGED <<messages, sent, turn>>
       ELSE /\ sent' = [sent EXCEPT ![s] = Append(@, End)]
            /\ IF sess[s].assistant_response = <<>>
               THEN /\ pc' = [pc EXCEPT ![s] = "recv"]
                    /\ turn' = [turn EXCEPT ![s].over = TRUE]
                    /\ UNCHANGED <<messages, sess>>
               ELSE \E db \in env.faults \ {"query"} :
                      LET cid == sess[s].conversation_id
                          \* the foreign key rejects a row of no conversation
                          commits == db \in {"ok", "close"} /\ cid \in conversations
                          raises == db \in {"get", "close"}
                      IN
                      /\ messages' =
                            IF commits
                            THEN Append(messages, Message(cid, "assistant",
                                            sess[s].assistant_response))
                            ELSE messages
                      /\ turn' = [turn EXCEPT ![s].db_failed = @ \/ db # "ok" \/ ~commits,
                                              ![s].over = ~raises]
                      /\ IF raises
                         THEN /\ pc' = [pc EXCEPT ![s] = "err_chunk"]
                              /\ sess' = [sess EXCEPT ![s].error_msg = E_DB]
                         ELSE /\ pc' = [pc EXCEPT ![s] = "recv"]
                              /\ UNCHANGED sess
    /\ UNCHANGED <<conversations, titles, index, chan, wf, pending, nodeVars, fileVars, env>>

\* the except block sends its chunk (lines 277-287)
ErrChunk(s) ==
    /\ pc[s] = "err_chunk"
    /\ IF chan[s] = "gone"
       THEN \E kind \in ChannelErrors :
              /\ pc' = [pc EXCEPT ![s] = "closed"]
              /\ sess' = [sess EXCEPT ![s] = Closed(@, kind)]
              /\ UNCHANGED sent
       ELSE /\ pc' = [pc EXCEPT ![s] = "err_end"]
            /\ sent' = [sent EXCEPT ![s] =
                          Append(@, Chunk(ErrorChunkContent(sess[s].error_msg), "relay"))]
            /\ UNCHANGED sess
    /\ UNCHANGED <<dbVars, index, chan, wf, pending, turn, nodeVars, fileVars, env>>

\* the except block sends end (line 288)
ErrEnd(s) ==
    /\ pc[s] = "err_end"
    /\ IF chan[s] = "gone"
       THEN \E kind \in ChannelErrors :
              /\ pc' = [pc EXCEPT ![s] = "closed"]
              /\ sess' = [sess EXCEPT ![s] = Closed(@, kind)]
              /\ UNCHANGED <<sent, turn>>
       ELSE /\ pc' = [pc EXCEPT ![s] = "recv"]
            /\ sent' = [sent EXCEPT ![s] = Append(@, End)]
            /\ turn' = [turn EXCEPT ![s].over = TRUE]
            /\ UNCHANGED sess
    /\ UNCHANGED <<dbVars, index, chan, wf, pending, nodeVars, fileVars, env>>

(* ---------------- main.py: chat_socket_legacy, step by step ------------ *)
\* receive_text returns a question and the run of the graph is started
\* (lines 310-314); nothing is read from or written to storage
LegacyReceiveQuestion(s) ==
    /\ pc[s] = "legacy_recv"
    /\ chan[s] = "open"
    /\ sess[s].turns < MaxTurns
    /\ \E q \in env.questions[s] :
         /\ sess' = [sess EXCEPT ![s] =
                       [@ EXCEPT !.query = q, !.error_msg = <<>>, !.turns = @ + 1]]
         /\ wf' = [wf EXCEPT ![s] =
                     [NoRun EXCEPT !.node = "retrieve", !.state = [question |-> q]]]
    /\ pc' = [pc EXCEPT ![s] = "legacy_stream"]
    /\ pending' = [pending EXCEPT ![s] = <<ChainStart("LangGraph")>>]
    /\ sent' = [sent EXCEPT ![s] = <<>>]
    /\ turn' = [turn EXCEPT ![s] = NoTurn]
    /\ UNCHANGED <<dbVars, index, chan, nodeVars, fileVars, env>>

\* receive_text raises WebSocketDisconnect (line 340)
LegacyReceiveDisconnect(s) ==
    /\ pc[s] = "legacy_recv"
    /\ chan[s] = "gone"
    /\ pc' = [pc EXCEPT ![s] = "closed"]
    /\ sess' = [sess EXCEPT ![s] = Closed(@, "WebSocketDisconnect")]
    /\ UNCHANGED <<dbVars, index, chan, wf, pending, sent, turn, nodeVars, fileVars, env>>

\* one iteration of the async for loop (lines 314-323)
LegacyRelayEvent(s) ==
    /\ pc[s] = "legacy_stream"
    /\ pending[s] # <<>>
    /\ LET ev == Head(pending[s]) IN
       IF NeedsSend(ev) /\ chan[s] = "gone"
       THEN \* send_json raises inside the try block: line 326 catches it
            /\ pc' = [pc EXCEPT ![s] = "legacy_err_chunk"]
            /\ sess' = [sess EXCEPT ![s].error_msg = E_CHAN]
            /\ wf' = [wf EXCEPT ![s].node = "aborted"]
            /\ pending' = [pending EXCEPT ![s] = <<>>]
            /\ UNCHANGED sent
       ELSE /\ pending' = [pending EXCEPT ![s] = Tail(@)]
            /\ sent' = [sent EXCEPT ![s] =
                          IF NeedsSend(ev) THEN Append(@, MessageFor(ev)) ELSE @]
            /\ UNCHANGED <<pc, wf, sess>>
    /\ UNCHANGED <<dbVars, index, chan, turn, nodeVars, fileVars, env>>

\* the run raised: astream_events re-raises in the loop (line 326)
LegacyRelayRaise(s) ==
    /\ pc[s] = "legacy_stream"
    /\ pending[s] = <<>>
    /\ wf[s].node = "raised"
    /\ pc' = [pc EXCEPT ![s] = "legacy_err_chunk"]
    /\ sess' = [sess EXCEPT ![s].error_msg = wf[s].exc[1]]
    /\ UNCHANGED <<dbVars, index, chan, wf, pending, sent, turn, nodeVars, fileVars, env>>

\* the loop is exhausted: send end (line 325)
LegacyRelayEnd(s) ==
    /\ pc[s] = "legacy_stream"
    /\ pending[s] = <<>>
    /\ wf[s].node = "done"
    /\ IF chan[s] = "gone"
       THEN /\ pc' = [pc EXCEPT ![s] = "legacy_err_chunk"]
            /\ sess' = [sess EXCEPT ![s].error_msg = E_CHAN]
            /\ UNCHANGED <<sent, turn>>
       ELSE /\ pc' = [pc EXCEPT ![s] = "legacy_recv"]
            /\ sent' = [sent EXCEPT ![s] = Append(@, End)]
            /\ turn' = [turn EXCEPT ![s].over = TRUE]
            /\ UNCHANGED sess
    /\ UNCHANGED <<dbVars, index, chan, wf, pending, nodeVars, fileVars, env>>

\* the except block sends its chunk (lines 327-337)
LegacyErrChunk(s) ==
    /\ pc[s] = "legacy_err_chunk"
    /\ IF chan[s] = "gone"
       THEN \E kind \in ChannelErrors :
              /\ pc' = [pc EXCEPT ![s] = "closed"]
              /\ sess' = [sess EXCEPT ![s] = Closed(@, kind)]
              /\ UNCHANGED sent
       ELSE /\ pc' = [pc EXCEPT ![s] = "legacy_err_end"]
            /\ sent' = [sent EXCEPT ![s] =
                          Append(@, Chunk(ErrorChunkContent(sess[s].error_msg), "relay"))]
            /\ UNCHANGED sess
    /\ UNCHANGED <<dbVars, index, chan, wf, pending, turn, nodeVars, fileVars, env>>

\* the except block sends end (line 338)
LegacyErrEnd(s) ==
    /\ pc[s] = "legacy_err_end"
    /\ IF chan[s] = "gone"
       THEN \E kind \in ChannelErrors :
              /\ pc' = [pc EXCEPT ![s] = "closed"]
              /\ sess' = [sess EXCEPT ![s] = Closed(@, kind)]
              /\ UNCHANGED <<sent, turn>>
       ELSE /\ pc' = [pc EXCEPT ![s] = "legacy_recv"]
            /\ sent' = [sent EXCEPT ![s] = Append(@, End)]
            /\ turn' = [turn EXCEPT ![s].over = TRUE]
            /\ UNCHANGED sess
    /\ UNCHANGED <<dbVars, index, chan, wf, pending, nodeVars, fileVars, env>>

(* ------------------------ main.py: conversations ---------------------- *)
\* DELETE /conversations/{id}: the row and, by cascade, its messages
delete_conversation(c) ==
    /\ c \in conversations
    /\ conversations' = conversations \ {c}
    /\ messages' = SelectSeq(messages, LAMBDA m : m.conversation_id # c)
    /\ UNCHANGED <<titles, index, pc, chan, sess, wf, pending, sent, turn, nodeVars, fileVars, env>>

(* ---------------------- main.py: the file endpoints -------------------- *)
DOT_PDF == <<".","p","d","f">>
ONLY_PDF == <<"O","n","l","y"," ","P","D","F"," ","f","i","l","e","s"," ","a","r","e"," ","s","u","p","p","o","r","t","e","d">>
\* f"PDF '{file.filename}' saved and processed successfully" (line 61)
SavedMessage(name) ==
    <<"P","D","F"," ","'">> \o name \o
    <<"'"," ","s","a","v","e","d"," ","a","n","d"," ","p","r","o","c","e","s","s","e","d"," ","s","u","c","c","e","s","s","f","u","l","l","y">>
\* f"File '{filename}' deleted" (line 85)
DeletedMessage(name) ==
    <<"F","i","l","e"," ","'">> \o name \o <<"'"," ","d","e","l","e","t","e","d">>
NOT_FOUND == <<"F","i","l","e"," ","n","o","t"," ","f","o","u","n","d">>
\* DATA_FOLDER as it shows in file_path
DATA_DIR == <<"d","a","t","a","/">>

\* str.endswith
EndsWith(s, suffix) ==
    Len(s) >= Len(suffix) /\ SubSeq(s, Len(s) - Len(suffix) + 1, Len(s)) = suffix

\* the file names clients use
NAME_A == <<"a",".","p","d","f">>
NAME_T == <<"n","o","t","e","s",".","t","x","t">>
FileNames == {NAME_A, NAME_T}

\* the documents clients upload: three pages of text of which one is blank;
\* two scanned pages of which one shows text; one page that is blank in the
\* file and in its scan; one page of text longer than a chunk
TXT_GAMMA == <<"g","a","m","m","a">>
PDF_TEXT == Pdf(<<DOC_A, <<" ","\n">>, DOC_B>>, <<DOC_A, <<>>, DOC_B>>)
PDF_SCAN == Pdf(<< <<>>, <<>> >>, << <<" ">>, TXT_GAMMA >>)
PDF_BLANK == Pdf(<< <<" ">> >>, << <<>> >>)
PDF_LONG == Pdf(<<Letters(0, CHUNK_SIZE + 50)>>, <<Letters(0, CHUNK_SIZE + 50)>>)
Pdfs == {PDF_TEXT, PDF_SCAN, PDF_BLANK, PDF_LONG}

\* how many calls of the file endpoints a run makes
MaxCalls == 3

\* http holds the record of the latest call, if any
Calls == IF http = <<>> THEN 0 ELSE http[1].nth

\* the record of a call: the endpoint, its arguments and its response, and
\* (history, not code) the index before the call, the document concerned and
\* what became of OCR
Call(op, name, pdf, ocr, response) ==
    <<[op |-> op, nth |-> Calls + 1, name |-> name, pdf |-> pdf,
       before |-> index, ocr |-> ocr, response |-> response]>>

\* open(file_path, "wb").write(content): the file is created or replaced
Written(folder, name, pdf) ==
    [n \in (DOMAIN folder) \cup {name} |-> IF n = name THEN pdf ELSE folder[n]]

\* os.remove(file_path)
Removed(folder, name) == [n \in (DOMAIN folder) \ {name} |-> folder[n]]

\* process_pdf for each of the documents, however an OCR attempt goes
Processed ==
    [pdf \in Pdfs |-> [ocr \in OcrOutcomes |-> process_pdf(pdf, ocr)]]

\* the chunks ingestion makes of a document when nothing fails
ChunksOf(pdf) == Processed[pdf]["works"].added

\* the index purged of the records of the deleted document
index_after_delete_Purged(idx, pdf) ==
    SelectSeq(idx, LAMBDA text :
                 \A i \in DOMAIN ChunksOf(pdf) : ChunksOf(pdf)[i] # text)

\* the index after delete_file: the handler removes the file and nothing else
index_after_delete(idx, pdf) == idx

\* POST /upload (lines 43-67)
upload_pdf(name, pdf) ==
    /\ Calls < MaxCalls
    /\ IF ~ EndsWith(name, DOT_PDF)
       THEN /\ http' = Call("upload", name, <<>>, "none", [error |-> ONLY_PDF])
            /\ UNCHANGED <<files, index>>
       ELSE \E ocr \in env.ocr :
              LET r == Processed[pdf][ocr] IN
              /\ files' = Written(files, name, pdf)
              /\ index' = IF r.raised = <<>> THEN from_documents(index, r.added)
                          ELSE index
              /\ http' = Call("upload", name, <<pdf>>,
                              IF r.ocr_called THEN ocr ELSE "none",
                              IF r.raised = <<>>
                              THEN [status |-> "success",
                                    message |-> SavedMessage(name),
                                    file_path |-> DATA_DIR \o name,
                                    result |-> r.result]
                              ELSE [error |-> r.raised[1], status |-> "failed"])
    /\ UNCHANGED <<dbVars, pc, chan, sess, wf, pending, sent, turn, nodeVars, env>>

\* GET /files (lines 69-76)
list_files ==
    /\ Calls < MaxCalls
    /\ LET listed == { n \in DOMAIN files : EndsWith(n, DOT_PDF) } IN
       http' = Call("list", <<>>, <<>>, "none",
                    [status |-> "success", files |-> listed,
                     count |-> Cardinality(listed)])
    /\ UNCHANGED <<files, index, dbVars, pc, chan, sess, wf, pending, sent, turn,
                   nodeVars, env>>

\* DELETE /files/{filename} (lines 78-88)
delete_file(name) ==
    /\ Calls < MaxCalls
    /\ IF name \in DOMAIN files
       THEN /\ files' = Removed(files, name)
            /\ index' = index_after_delete(index, files[name])
            /\ http' = Call("delete", name, <<files[name]>>, "none",
                            [status |-> "success",
                             message |-> DeletedMessage(name)])
       ELSE /\ http' = Call("delete", name, <<>>, "none",
                            [status |-> "error", message |-> NOT_FOUND])
            /\ UNCHANGED <<files, index>>
    /\ UNCHANGED <<dbVars, pc, chan, sess, wf, pending, sent, turn, nodeVars, env>>

(* --------------------------- specification ---------------------------- *)
\* the environment in which every client may ask every question and leave,
\* and every service may give each of its answers
EnvAll ==
    [questions |-> [s \in Sessions |-> Questions],
     outcomes |-> [s \in Sessions |-> LLMOutcomes],
     errors |-> RetrieverErrors,
     faults |-> DbFaults,
     leavers |-> Sessions,
     ocr |-> OcrOutcomes]

\* what an earlier session may have left in conversation c1
Q_OLD == <<"o","l","d","?">>
History == <<Message("c1", "user", Q_OLD), Message("c1", "assistant", <<"o","k">>)>>

Init ==
    /\ conversations = {"c1"}
    /\ messages \in {<<>>, History}
    /\ titles = [c \in ConvIds |->
                   IF c = "c1" /\ messages # <<>> THEN TitleFrom(Q_OLD) ELSE NEW_CHAT]
    /\ index \in {<<>>, <<DOC_A>>, <<DOC_A, DOC_B>>}
    /\ pc = [s \in Sessions |-> IF s = "s1" THEN "recv" ELSE "off"]
    /\ chan = [s \in Sessions |-> "open"]
    /\ \E c \in ConvIds :
         sess = [s \in Sessions |-> [NoLocals EXCEPT !.conversation_id = c]]
    /\ wf = [s \in Sessions |-> NoRun]
    /\ pending = [s \in Sessions |-> <<>>]
    /\ sent = [s \in Sessions |-> <<>>]
    /\ turn = [s \in Sessions |-> NoTurn]
    /\ nodeIn = <<>>
    /\ nodeRes = <<>>
    /\ files = <<>>
    /\ http = <<>>
    /\ env = EnvAll

Next ==
    \/ \E s \in Sessions : ReceiveQuestion(s)
    \/ \E s \in Sessions : ReceiveDisconnect(s)
    \/ \E s \in Sessions : ClientDisconnect(s)
    \/ \E s \in Sessions : WfRetrieve(s)
    \/ \E s \in Sessions : WfGrade(s)
    \/ \E s \in Sessions : WfGenerate(s)
    \/ \E s \in Sessions : RelayEvent(s)
    \/ \E s \in Sessions : RelayRaise(s)
    \/ \E s \in Sessions : RelayEnd(s)
    \/ \E s \in Sessions : ErrChunk(s)
    \/ \E s \in Sessions : ErrEnd(s)
    \/ \E c \in ConvIds : delete_conversation(c)

Spec == Init /\ [][Next]_vars

(* ------------------ two sessions at the same time --------------------- *)
\* two clients, each with its own question and its own answers of the model
\* service; the index service can fail, storage works, and the second
\* client may leave at any time
EnvConc ==
    [questions |-> [s \in Sessions |-> IF s = "s1" THEN {Q_HI} ELSE {Q_OLD}],
     outcomes |-> [s \in Sessions |->
                     IF s = "s1"
                     THEN {Ok(<< <<"Y">>, <<"e","s">>, <<>> >>), Fail(<<>>, E_EXHAUSTED)}
                     ELSE {Ok(<< <<"n","o">> >>), Fail(<< <<"n","o">> >>, E_TIMEOUT)}],
     errors |-> {E_TIMEOUT},
     faults |-> {"ok"},
     leavers |-> {"s2"},
     ocr |-> OcrOutcomes]

\* both sessions are connected, on the same conversation or on two
InitConc ==
    /\ conversations = ConvIds
    /\ messages = <<>>
    /\ titles = [c \in ConvIds |-> NEW_CHAT]
    /\ index = <<DOC_A>>
    /\ pc = [s \in Sessions |-> "recv"]
    /\ chan = [s \in Sessions |-> "open"]
    /\ \E c \in ConvIds :
         sess = [s \in Sessions |->
                   [NoLocals EXCEPT !.conversation_id = IF s = "s1" THEN "c1" ELSE c]]
    /\ wf = [s \in Sessions |-> NoRun]
    /\ pending = [s \in Sessions |-> <<>>]
    /\ sent = [s \in Sessions |-> <<>>]
    /\ turn = [s \in Sessions |-> NoTurn]
    /\ nodeIn = <<>>
    /\ nodeRes = <<>>
    /\ files = <<>>
    /\ http = <<>>
    /\ env = EnvConc

NextConc ==
    \/ \E s \in Sessions : ReceiveQuestion(s)
    \/ \E s \in Sessions : ReceiveDisconnect(s)
    \/ \E s \in Sessions : ClientDisconnect(s)
    \/ \E s \in Sessions : WfRetrieve(s)
    \/ \E s \in Sessions : WfGrade(s)
    \/ \E s \in Sessions : WfGenerate(s)
    \/ \E s \in Sessions : RelayEvent(s)
    \/ \E s \in Sessions : RelayRaise(s)
    \/ \E s \in Sessions : RelayEnd(s)
    \/ \E s \in Sessions : ErrChunk(s)
    \/ \E s \in Sessions : ErrEnd(s)

SpecConc == InitConc /\ [][NextConc]_vars

(* --------------- the two websocket endpoints side by side ------------- *)
\* the same question on both endpoints; the model answers, streams nothing
\* or fails, retrieval may fail with a quota error or a timeout, the storage
\* handle may fail to open, and either client may leave
EnvLegacy ==
    [questions |-> [s \in Sessions |-> {Q_HI}],
     outcomes |-> [s \in Sessions |->
                     {Ok(<< <<"n","o">> >>), Ok(<< <<>> >>), Fail(<<>>, E_EXHAUSTED)}],
     errors |-> RetrieverErrors,
     faults |-> {"ok", "get"},
     leavers |-> Sessions,
     ocr |-> OcrOutcomes]

\* the sessions connected to /ws; the others are connected to /ws/c1
LegacySessions == {"s2"}

InitLegacy ==
    /\ conversations = {"c1"}
    /\ messages = <<>>
    /\ titles = [c \in ConvIds |-> NEW_CHAT]
    /\ index = <<DOC_A>>
    /\ pc = [s \in Sessions |-> IF s \in LegacySessions THEN "legacy_recv" ELSE "recv"]
    /\ chan = [s \in Sessions |-> "open"]
    /\ sess = [s \in Sessions |-> NoLocals]
    /\ wf = [s \in Sessions |-> NoRun]
    /\ pending = [s \in Sessions |-> <<>>]
    /\ sent = [s \in Sessions |-> <<>>]
    /\ turn = [s \in Sessions |-> NoTurn]
    /\ nodeIn = <<>>
    /\ nodeRes = <<>>
    /\ files = <<>>
    /\ http = <<>>
    /\ env = EnvLegacy

NextLegacy ==
    \/ \E s \in Sessions : ReceiveQuestion(s)
    \/ \E s \in Sessions : ReceiveDisconnect(s)
    \/ \E s \in Sessions : ClientDisconnect(s)
    \/ \E s \in Sessions : WfRetrieve(s)
    \/ \E s \in Sessions : WfGrade(s)
    \/ \E s \in Sessions : WfGenerate(s)
    \/ \E s \in Sessions : RelayEvent(s)
    \/ \E s \in Sessions : RelayRaise(s)
    \/ \E s \in Sessions : RelayEnd(s)
    \/ \E s \in Sessions : ErrChunk(s)
    \/ \E s \in Sessions : ErrEnd(s)
    \/ \E s \in Sessions : LegacyReceiveQuestion(s)
    \/ \E s \in Sessions : LegacyReceiveDisconnect(s)
    \/ \E s \in Sessions : LegacyRelayEvent(s)
    \/ \E s \in Sessions : LegacyRelayRaise(s)
    \/ \E s \in Sessions : LegacyRelayEnd(s)
    \/ \E s \in Sessions : LegacyErrChunk(s)
    \/ \E s \in Sessions : LegacyErrEnd(s)

SpecLegacy == InitLegacy /\ [][NextLegacy]_vars

(* ------------------ the file endpoints and retrieval ------------------ *)
\* one client asks its question, and its run retrieves, while documents are
\* uploaded, listed and deleted; the OCR libraries are installed or not, the
\* messages table works
EnvFiles(installed) ==
    [questions |-> [s \in Sessions |-> {Q_HI}],
     outcomes |-> [s \in Sessions |-> {Ok(<< <<"Y">>, <<"e","s">>, <<>> >>)}],
     errors |-> {},
     faults |-> {"ok"},
     leavers |-> {},
     ocr |-> IF installed THEN {"raises", "works"} ELSE {"unavailable"}]

InitFiles ==
    /\ conversations = {"c1"}
    /\ messages = <<>>
    /\ titles = [c \in ConvIds |-> NEW_CHAT]
    /\ index = <<>>
    /\ pc = [s \in Sessions |-> IF s = "s1" THEN "recv" ELSE "off"]
    /\ chan = [s \in Sessions |-> "open"]
    /\ sess = [s \in Sessions |-> NoLocals]
    /\ wf = [s \in Sessions |-> NoRun]
    /\ pending = [s \in Sessions |-> <<>>]
    /\ sent = [s \in Sessions |-> <<>>]
    /\ turn = [s \in Sessions |-> NoTurn]
    /\ nodeIn = <<>>
    /\ nodeRes = <<>>
    /\ files = <<>>
    /\ http = <<>>
    /\ \E installed \in BOOLEAN : env = EnvFiles(installed)

NextFiles ==
    \/ \E name \in FileNames, pdf \in Pdfs : upload_pdf(name, pdf)
    \/ list_files
    \/ \E name \in FileNames : delete_file(name)
    \/ \E s \in Sessions : ReceiveQuestion(s)
    \/ \E s \in Sessions : WfRetrieve(s)
    \/ \E s \in Sessions : RelayEvent(s)

SpecFiles == InitFiles /\ [][NextFiles]_vars

(* ------------- the node functions exercised in isolation -------------- *)
\* sequences over S of length at most n
RECURSIVE SeqsUpTo(_, _)
SeqsUpTo(S, n) ==
    IF n = 0 THEN {<<>>}
    ELSE LET shorter == SeqsUpTo(S, n - 1)
         IN  shorter \cup { Append(q, x) : q \in { r \in shorter : Len(r) = n - 1 }, x \in S }

\* answers an AgentState can hold
Answers == {<<>>, <<"o","k">>, ERROR_PREFIX \o E_TIMEOUT}

\* AgentState values: question and documents present, answer and
\* run_web_search present or not
AgentStates ==
    LET base == { [question |-> q, documents |-> d] :
                    q \in Questions, d \in SeqsUpTo(Chunks, MaxDocs) }
        withAnswer == base \cup { Merge(b, [answer |-> a]) : b \in base, a \in Answers }
    IN  withAnswer \cup { Merge(b, [run_web_search |-> FALSE]) : b \in withAnswer }

InitNodes ==
    /\ conversations = {}
    /\ titles = [c \in ConvIds |-> NEW_CHAT]
    /\ messages = <<>>
    /\ index = <<>>
    /\ pc = [s \in Sessions |-> "off"]
    /\ chan = [s \in Sessions |-> "open"]
    /\ sess = [s \in Sessions |-> NoLocals]
    /\ wf = [s \in Sessions |-> NoRun]
    /\ pending = [s \in Sessions |-> <<>>]
    /\ sent = [s \in Sessions |-> <<>>]
    /\ turn = [s \in Sessions |-> NoTurn]
    /\ nodeIn \in AgentStates
    /\ nodeRes = <<>>
    /\ files = <<>>
    /\ http = <<>>
    /\ env = EnvAll

sessionVars == <<conversations, titles, messages, index, pc, chan, sess, wf,
                 pending, sent, turn, files, http, env>>

\* nodeRes holds the record of the latest application, if any: how many
\* applications there have been, and which node was applied last
Applied == IF nodeRes = <<>> THEN 0 ELSE nodeRes[1].nth
LastOp == IF nodeRes = <<>> THEN "none" ELSE nodeRes[1].op

\* grade_documents_node(nodeIn), its return value written back to the state
ApplyGrade ==
    /\ Applied < MaxApply
    /\ \E outs \in [1..Len(nodeIn["documents"]) -> LLMOutcomes] :
         LET ret == grade_documents_node(nodeIn, outs) IN
         /\ nodeRes' = <<[op |-> "grade", nth |-> Applied + 1, after |-> LastOp,
                          before |-> nodeIn, outs |-> outs, ret |-> ret,
                          search |-> grade_search(nodeIn, outs),
                          prompts |-> grade_prompts(nodeIn)]>>
         /\ nodeIn' = Merge(nodeIn, ret)
    /\ UNCHANGED sessionVars

\* generative_node(nodeIn), its return value written back to the state
ApplyGenerate ==
    /\ Applied < MaxApply
    /\ \E out \in LLMOutcomes :
         LET ret == generative_node(nodeIn, out) IN
         /\ nodeRes' = <<[op |-> "generate", nth |-> Applied + 1, after |-> LastOp,
                          before |-> nodeIn, outs |-> <<out>>, ret |-> ret,
                          search |-> FALSE,
                          prompts |-> generate_prompts(nodeIn)]>>
         /\ nodeIn' = Merge(nodeIn, ret)
    /\ UNCHANGED sessionVars

NextNodes == ApplyGrade \/ ApplyGenerate

SpecNodes == InitNodes /\ [][NextNodes]_vars

(* ---------------- the text splitter exercised in isolation ------------ *)
\* how many blocks of letters a page text is made of
MaxBlocks == 3

\* the lengths of a block: well under chunk_size, close to it, over it
BlockLens == {60, 300, 450}

\* what stands between two blocks: a paragraph break, the end of a sentence,
\* a space, or nothing
BlockSeps == { <<"\n","\n">>, <<".", " ">>, <<" ">>, <<>> }

\* the page texts: MaxBlocks blocks with the same separator between them
PageTexts ==
    { Join(sep, [b \in 1..MaxBlocks |-> Letters(1000 * b, lens[b])]) :
        lens \in [1..MaxBlocks -> BlockLens], sep \in BlockSeps }

InitSplit ==
    /\ conversations = {}
    /\ titles = [c \in ConvIds |-> NEW_CHAT]
    /\ messages = <<>>
    /\ index = <<>>
    /\ pc = [s \in Sessions |-> "off"]
    /\ chan = [s \in Sessions |-> "open"]
    /\ sess = [s \in Sessions |-> NoLocals]
    /\ wf = [s \in Sessions |-> NoRun]
    /\ pending = [s \in Sessions |-> <<>>]
    /\ sent = [s \in Sessions |-> <<>>]
    /\ turn = [s \in Sessions |-> NoTurn]
    /\ nodeIn \in PageTexts
    /\ nodeRes = <<>>
    /\ files = <<>>
    /\ http = <<>>
    /\ env = EnvAll

\* text_splitter.split_text(nodeIn)
ApplySplit ==
    /\ nodeRes = <<>>
    /\ nodeRes' = <<[op |-> "split", text |-> nodeIn, chunks |-> split_text(nodeIn)]>>
    /\ UNCHANGED <<nodeIn, sessionVars>>

SpecSplit == InitSplit /\ [][ApplySplit]_vars

(* ------------------------------ claims -------------------------------- *)
RECURSIVE ContentsOf(_, _)
\* the contents of the chunk events of a turn that satisfy `keep`, in order
ContentsOf(evs, relayToo) ==
    IF evs = <<>> THEN <<>>
    ELSE (IF Head(evs).type = "chunk" /\ (relayToo \/ Head(evs).src # "relay")
          THEN <<Head(evs).content>> ELSE <<>>)
         \o ContentsOf(Tail(evs), relayToo)

\* the turn of session s is over and the session waits for the next question
Over(s) == pc[s] = "recv" /\ turn[s].over

\* the positions of the events of a type in what a turn sent
Positions(evs, type) == { i \in DOMAIN evs : evs[i].type = type }

\* the user Message of the current turn of s
UserMessage(s) == Message(sess[s].conversation_id, "user", sess[s].query)

\* C1: in a turn whose workflow completes without raising the client
\* receives status events, then one or more chunk events, then exactly one
\* end event: no status after the first chunk, and the end event is last.
\* Stated for the turns in which nothing at all fails: the model call of
\* GENERATE returns a non-empty answer and storage works.
C1_StatusChunksEnd ==
    \A s \in Sessions :
        (/\ Over(s)
         /\ wf[s].node = "done"
         /\ wf[s].gen[1].err = <<>>
         /\ wf[s].state["answer"] # <<>>
         /\ ~turn[s].db_failed) =>
            LET st == Positions(sent[s], "status")
                ch == Positions(sent[s], "chunk")
                en == Positions(sent[s], "end")
            IN  /\ st # {}
                /\ ch # {}
                /\ ContentsOf(sent[s], TRUE) # <<>>
                /\ Concat(ContentsOf(sent[s], TRUE)) # <<>>
                /\ en = {Len(sent[s])}
                /\ \A i \in st, j \in ch : i < j

\* C2 as stated: after a completed turn on an existing conversation, without
\* storage failure, the conversation has gained exactly (user, question) and
\* (assistant, concatenation of the turn's chunk contents).
C2_AlwaysTwoMessages ==
    \A s \in Sessions :
        (/\ Over(s)
         /\ turn[s].existed
         /\ sess[s].conversation_id \in conversations
         /\ ~turn[s].db_failed) =>
            MessagesOf(sess[s].conversation_id) =
                turn[s].base \o
                    <<UserMessage(s),
                      Message(sess[s].conversation_id, "assistant",
                              Concat(ContentsOf(sent[s], TRUE)))>>

\* C2 amended: after a completed turn on an existing conversation, without
\* storage failure, the conversation has gained (user, question) and then,
\* exactly when the turn forwarded at least one fragment of the model stream,
\* (assistant, concatenation of those fragments in emission order).
C2_MessagesOfTurn ==
    \A s \in Sessions :
        (/\ Over(s)
         /\ turn[s].existed
         /\ sess[s].conversation_id \in conversations
         /\ ~turn[s].db_failed) =>
            LET streamed == ContentsOf(sent[s], FALSE) IN
            MessagesOf(sess[s].conversation_id) =
                turn[s].base \o <<UserMessage(s)>> \o
                    (IF streamed # <<>>
                     THEN <<Message(sess[s].conversation_id, "assistant",
                                    Concat(streamed))>>
                     ELSE <<>>)

\* a completed turn that forwarded several fragments and saved both Messages
C2_Witness ==
    \E s \in Sessions :
        /\ Over(s)
        /\ sess[s].conversation_id \in conversations
        /\ ~turn[s].db_failed
        /\ Len(ContentsOf(sent[s], FALSE)) >= 3
        /\ Len(MessagesOf(sess[s].conversation_id)) = Len(turn[s].base) + 2

\* C3: every chunk event forwarded from the model stream carries a token of
\* the answer produced in GENERATE, never output of a GRADE judgment.
C3_OnlyAnswerTokens ==
    \A s \in Sessions : \A i \in DOMAIN sent[s] :
        (sent[s][i].type = "chunk" /\ sent[s][i].src # "relay") =>
            sent[s][i].src = "generate"

\* C4: a turn in which the model call of GENERATE fails with a rate-limit
\* condition sends exactly one chunk event, carrying the advisory text, then
\* end, and the session waits for the next question.
C4_RateLimitAdvisory ==
    \A s \in Sessions :
        (/\ Over(s)
         /\ wf[s].gen # <<>>
         /\ wf[s].gen[1].err # <<>>
         /\ IsRateLimit(wf[s].gen[1].err[1])
         /\ ~turn[s].db_failed) =>
            /\ ContentsOf(sent[s], TRUE) = <<ADVISORY>>
            /\ sent[s][Len(sent[s])].type = "end"

\* C5: the channel loop of a session ends only when its channel has failed.
C5_LoopEndsOnlyOnChannelFailure ==
    \A s \in Sessions : pc[s] = "closed" => chan[s] = "gone"

\* C6: when the model call of GENERATE fails, the formatted error text that
\* is the answer reaches the client as chunk content before end, and is the
\* turn's assistant Message.
C6_ErrorAnswerDelivered ==
    \A s \in Sessions :
        (/\ Over(s)
         /\ wf[s].node = "done"
         /\ wf[s].gen[1].err # <<>>
         /\ turn[s].existed
         /\ sess[s].conversation_id \in conversations
         /\ ~turn[s].db_failed) =>
            /\ Contains(wf[s].state["answer"], Concat(ContentsOf(sent[s], TRUE)))
            /\ \E i \in DOMAIN messages :
                  /\ messages[i].role = "assistant"
                  /\ Contains(wf[s].state["answer"], messages[i].content)

(* the graph runs to completion once started: the executor keeps stepping   *)
(* the nodes, and the relay keeps consuming the events it is handed         *)
FairSpec ==
    /\ Spec
    /\ \A s \in Sessions :
         /\ WF_vars(WfRetrieve(s))
         /\ WF_vars(WfGrade(s))
         /\ WF_vars(WfGenerate(s))
         /\ WF_vars(RelayEvent(s))

ALL_NODES == <<"retrieve", "grade", "generate">>

\* p is an initial segment of q
IsPrefix(p, q) == Len(p) <= Len(q) /\ SubSeq(q, 1, Len(p)) = p

\* the run of session s has stopped, however it stopped
Stopped(s) == wf[s].node \in {"done", "raised", "aborted"}

\* C7 as stated: every run that has stopped went through RETRIEVE, GRADE and
\* GENERATE, once each and in that order, and is DONE.  Stated for the runs
\* the relay consumed to their end.
C7_EveryRunReachesDone ==
    \A s \in Sessions :
        (Stopped(s) /\ wf[s].node # "aborted") =>
            wf[s].node = "done" /\ wf[s].trace = ALL_NODES

\* the nodes a run has entered are an initial segment of RETRIEVE, GRADE,
\* GENERATE, the node to run next is the one that follows them whatever the
\* filtered set is, DONE is reached through all three, and a run raises in
\* RETRIEVE only
C7_Order ==
    \A s \in Sessions :
        /\ IsPrefix(wf[s].trace, ALL_NODES)
        /\ wf[s].node \in {"retrieve", "grade", "generate"} =>
              wf[s].node = ALL_NODES[Len(wf[s].trace) + 1]
        /\ wf[s].node = "done" => wf[s].trace = ALL_NODES
        /\ wf[s].node = "raised" => wf[s].trace = <<"retrieve">>
        /\ wf[s].node = "none" => wf[s].trace = <<>>

\* C7 amended: a run enters RETRIEVE, GRADE, GENERATE in that order, each at
\* most once, GRADE always hands on to GENERATE, and every started run stops:
\* DONE after all three nodes, unless RETRIEVE raises or the relay abandons
\* the run on a channel failure.
C7_LinearAndStops ==
    /\ []C7_Order
    /\ \A s \in Sessions :
         (wf[s].node = "retrieve") ~> Stopped(s)

\* a run that is DONE after GRADE handed an empty filtered set to GENERATE
C7_Witness ==
    \E s \in Sessions :
        /\ wf[s].node = "done"
        /\ wf[s].trace = ALL_NODES
        /\ wf[s].grades # <<>>
        /\ wf[s].state["documents"] = <<>>

\* the latest application, when it is one of node `op`
Applications(op) == { i \in DOMAIN nodeRes : nodeRes[i].op = op }

\* every model call of the application raised
AllRaise(r) == \A i \in DOMAIN r.outs : r.outs[i].err # <<>>

\* C8: GRADE is fail-open: when every judgment raises, the filtered list is
\* the retrieved list, same chunks in the same order; and when at least one
\* judgment raises the filtered list is not empty.
C8_GradeFailOpen ==
    \A i \in Applications("grade") :
        LET r == nodeRes[i] IN
        /\ AllRaise(r) => r.ret["documents"] = r.before["documents"]
        /\ (\E j \in DOMAIN r.outs : r.outs[j].err # <<>>) =>
              r.ret["documents"] # <<>>

\* GRADE applied to two different chunks whose judgments both raise
C8_Witness ==
    \E i \in Applications("grade") :
        /\ Len(nodeRes[i].before["documents"]) >= 2
        /\ nodeRes[i].before["documents"][1] # nodeRes[i].before["documents"][2]
        /\ AllRaise(nodeRes[i])
        /\ nodeRes[i].ret["documents"] = nodeRes[i].before["documents"]

\* C9 as stated: GENERATE applied to a state that holds an answer, whatever
\* the answer (the empty string included), returns that state and sends no
\* prompt to the model.
C9_IdempotentForEveryAnswer ==
    \A i \in Applications("generate") :
        LET r == nodeRes[i] IN
        "answer" \in DOMAIN r.before =>
            /\ r.ret = r.before
            /\ Merge(r.before, r.ret) = r.before
            /\ r.prompts = <<>>

\* C9 amended: GENERATE applied to a state that holds a non-empty answer
\* returns that state (question, documents and answer equal) and sends no
\* prompt to the model.
C9_IdempotentForNonEmptyAnswer ==
    \A i \in Applications("generate") :
        LET r == nodeRes[i] IN
        ("answer" \in DOMAIN r.before /\ r.before["answer"] # <<>>) =>
            /\ r.ret = r.before
            /\ Merge(r.before, r.ret) = r.before
            /\ r.prompts = <<>>

\* GENERATE applied twice in a row, the second time to the answer of the first
C9_Witness ==
    \E i \in Applications("generate") :
        /\ nodeRes[i].nth = 2
        /\ nodeRes[i].after = "generate"
        /\ nodeRes[i].before["answer"] # <<>>
        /\ nodeRes[i].ret = nodeRes[i].before

\* C10: once GRADE has run, the run_web_search flag of the state it hands on
\* is set exactly when the filtered list is empty, and the run goes on to
\* GENERATE without another retrieval.
C10_FlagSetWhenNothingPasses ==
    \A s \in Sessions :
        wf[s].node \in {"generate", "done"} =>
            /\ wf[s].state["run_web_search"] = (wf[s].state["documents"] = <<>>)
            /\ IsPrefix(wf[s].trace, ALL_NODES)

\* C17: every turn that does not end in a channel failure sends exactly one
\* end event, and it is the last event of the turn, whether the workflow
\* succeeds or raises and whether persistence succeeds or fails.
C17_ExactlyOneEndLast ==
    \A s \in Sessions :
        Over(s) => Positions(sent[s], "end") = {Len(sent[s])}

\* the elements of a set of positions, in increasing order
Ascending(K) ==
    CHOOSE f \in [1..Cardinality(K) -> K] :
        \A a, b \in 1..Cardinality(K) : a < b => f[a] < f[b]

\* the judgment of a model call reads as affirmative: its text, whatever the
\* case of its letters, has the letters y, e, s in a row
Affirmative(out) ==
    \E i \in 1..Len(Concat(out.tokens)) - 2 :
        LET t == Concat(out.tokens) IN
        /\ t[i] \in {"y", "Y"}
        /\ t[i + 1] \in {"e", "E"}
        /\ t[i + 2] \in {"s", "S"}

\* C18: the list GRADE returns is exactly the subsequence of the retrieved
\* chunks, in their original order and with nothing added, made of the
\* chunks whose judgment either contains "yes" in any letter case or raised;
\* a chunk whose judgment returned text without "yes" is dropped.
C18_GradeIsFilter ==
    \A i \in Applications("grade") :
        LET r == nodeRes[i]
            docs == r.before["documents"]
            kept == { j \in DOMAIN docs :
                        r.outs[j].err # <<>> \/ Affirmative(r.outs[j]) }
            order == Ascending(kept)
        IN  /\ Len(r.outs) = Len(docs)
            /\ r.ret["documents"] = [j \in 1..Cardinality(kept) |-> docs[order[j]]]
            /\ DOMAIN r.ret = {"documents"}

\* GRADE applied to two different chunks: the first judged "Yes" in mixed
\* case and kept, the second judged "no" and dropped
C18_Witness ==
    \E i \in Applications("grade") :
        LET r == nodeRes[i] IN
        /\ Len(r.before["documents"]) = 2
        /\ r.before["documents"][1] # r.before["documents"][2]
        /\ r.outs[1].err = <<>> /\ Concat(r.outs[1].tokens) = <<"Y","e","s">>
        /\ r.outs[2].err = <<>> /\ Concat(r.outs[2].tokens) = <<"n","o">>
        /\ r.ret["documents"] = <<r.before["documents"][1]>>

\* C19: GENERATE never lets an exception of its model call out: it returns
\* the answer "Error: " followed by the exception's message, so the run is
\* DONE with a non-empty answer; and a run raises only in RETRIEVE, never
\* because a model call of GRADE or GENERATE failed.
C19_ModelFailuresAbsorbed ==
    \A s \in Sessions :
        /\ (wf[s].gen # <<>> /\ wf[s].gen[1].err # <<>>) =>
              /\ wf[s].node \in {"done", "aborted"}
              /\ wf[s].trace = ALL_NODES
              /\ wf[s].exc = <<>>
              /\ wf[s].state["answer"] # <<>>
              /\ wf[s].state["answer"] = ERROR_PREFIX \o wf[s].gen[1].err[1]
        /\ (\E i \in DOMAIN wf[s].grades : wf[s].grades[i].err # <<>>) =>
              wf[s].node # "raised" /\ wf[s].exc = <<>>
        /\ wf[s].node = "raised" =>
              /\ wf[s].trace = <<"retrieve">>
              /\ wf[s].grades = <<>> /\ wf[s].gen = <<>>
              /\ wf[s].exc # <<>> /\ wf[s].exc[1] \in RetrieverErrors

\* a run that is DONE although the model call of GRADE and the model call of
\* GENERATE both raised
C19_Witness ==
    \E s \in Sessions :
        /\ wf[s].node = "done"
        /\ wf[s].grades # <<>> /\ wf[s].grades[1].err # <<>>
        /\ wf[s].gen[1].err = <<E_TIMEOUT>>
        /\ wf[s].state["answer"] = ERROR_PREFIX \o E_TIMEOUT

\* the channel of s closed while its turn was in progress, after the user
\* Message was saved and part of the answer was forwarded, storage having
\* worked throughout the turn, and the coroutine has ended
ClosedMidTurn(s) ==
    /\ pc[s] = "closed"
    /\ chan[s] = "gone"
    /\ sess[s].turns > 0
    /\ ~turn[s].over
    /\ ~turn[s].db_failed
    /\ turn[s].user_saved
    /\ sess[s].assistant_response # <<>>

\* C20: when the channel closes while a turn is in progress the session
\* loop ends without sending further events, the partially accumulated
\* answer is not persisted as an assistant Message, the user Message saved at
\* the start of the turn remains, and the server closes the channel handle
\* only when the disconnect was not initiated by the client (in this model
\* the client initiates every disconnect).
C20_DisconnectMidTurn ==
    \A s \in Sessions :
        ClosedMidTurn(s) =>
            LET cid == sess[s].conversation_id IN
            /\ sent[s] = <<>> \/ sent[s][Len(sent[s])].type # "end"
            /\ cid \in conversations =>
                  MessagesOf(cid) = turn[s].base \o <<UserMessage(s)>>
            /\ ~sess[s].close_called

RECURSIVE BlankLineJoined(_)
\* the texts one after the other, a blank line between neighbours
BlankLineJoined(texts) ==
    IF Len(texts) = 0 THEN <<>>
    ELSE IF Len(texts) = 1 THEN texts[1]
    ELSE BlankLineJoined(SubSeq(texts, 1, Len(texts) - 1))
             \o <<"\n", "\n">> \o texts[Len(texts)]



\* C15: when the index holds a single chunk, retrieved for a question and
\* judged relevant, the Retriever returns exactly that chunk, GRADE keeps it
\* and the prompt of GENERATE contains the chunk's text verbatim; in every
\* run the context block of that prompt is the filtered chunk texts, in
\* filtered order, joined by a blank line, and the question follows it.
C15_PromptCarriesFilteredChunks ==
    \A s \in Sessions :
        wf[s].node = "done" =>
            LET p == wf[s].prompts[1]
                docs == wf[s].state["documents"]
                ctx == BlankLineJoined(docs)
                q == wf[s].state["question"]
            IN  /\ Len(wf[s].prompts) = 1
                /\ (Len(index) = 1 /\ grade_keep(wf[s].grades[1])) =>
                      /\ Len(wf[s].grades) = 1
                      /\ docs = <<index[1]>>
                      /\ Contains(index[1], p)
                /\ q = sess[s].query
                /\ p = GEN_P1 \o ctx \o GEN_P2 \o q \o GEN_P3

\* a run over an index of one chunk that GRADE judged relevant
C15_Witness ==
    \E s \in Sessions :
        /\ wf[s].node = "done"
        /\ index = <<DOC_A>>
        /\ wf[s].grades # <<>> /\ wf[s].grades[1].err = <<>>
        /\ wf[s].state["documents"] = <<DOC_A>>
        /\ Contains(DOC_A, wf[s].prompts[1])

\* the non-empty fragments the model service streamed in the run of session
\* s, in the order of the calls: the judgments of GRADE, then GENERATE
OwnTokens(s) ==
    LET all == Concat([i \in 1..Len(wf[s].grades) |-> wf[s].grades[i].tokens])
                   \o (IF wf[s].gen = <<>> THEN <<>> ELSE wf[s].gen[1].tokens)
    IN  SelectSeq(all, LAMBDA t : t # <<>>)

\* C11: concurrent sessions share no session-local state.  Under every
\* interleaving of two sessions, the chunk events of a session and the
\* assistant Message it persists hold only fragments produced for its own
\* question; and the failure or the disconnect of one session neither ends
\* nor alters the turn of the other.
C11_SessionsIsolated ==
    \A s \in Sessions :
        LET streamed == ContentsOf(sent[s], FALSE)
            cid == sess[s].conversation_id
        IN  /\ sess[s].query \in env.questions[s] \cup {<<>>}
            /\ wf[s].node # "none" => wf[s].state["question"] = sess[s].query
            /\ IsPrefix(streamed, OwnTokens(s))
            /\ \A i \in DOMAIN wf[s].grades : wf[s].grades[i] \in env.outcomes[s]
            /\ \A i \in DOMAIN wf[s].gen : wf[s].gen[i] \in env.outcomes[s]
            /\ sess[s].assistant_response = Concat(streamed)
            /\ (Over(s) /\ wf[s].node = "done") =>
                  /\ streamed = OwnTokens(s)
                  /\ Positions(sent[s], "end") = {Len(sent[s])}
                  /\ \E i \in DOMAIN messages :
                        messages[i] = Message(cid, "user", sess[s].query)
                  /\ streamed # <<>> =>
                        \E i \in DOMAIN messages :
                           messages[i] = Message(cid, "assistant",
                                                 Concat(OwnTokens(s)))
            /\ \A i \in DOMAIN messages :
                  messages[i].role = "assistant" =>
                     \E t \in Sessions :
                        /\ messages[i].conversation_id = sess[t].conversation_id
                        /\ \E o \in env.outcomes[t] :
                              Contains(Concat(o.tokens), messages[i].content)
            /\ pc[s] = "closed" => chan[s] = "gone"
            /\ wf[s].node = "raised" => wf[s].grades = <<>>

\* both sessions were streaming at the same time; the second failed in
\* retrieval and its client left, the first completed its turn and persisted
\* its own answer
C11_Witness ==
    /\ Over("s1")
    /\ wf["s1"].node = "done"
    /\ sess["s1"].assistant_response = <<"Y","e","s","Y","e","s">>
    /\ wf["s2"].node = "raised"
    /\ pc["s2"] = "closed"
    /\ sess["s2"].conversation_id = "c1"
    /\ \E i \in DOMAIN messages : \E j \in DOMAIN messages :
          /\ i < j
          /\ messages[i] = Message("c1", "user", Q_OLD)
          /\ messages[j] = Message("c1", "assistant", <<"Y","e","s","Y","e","s">>)

\* the length of the longest end of chunk c that is also a start of chunk d
Shared(c, d) ==
    LET fits == { k \in 0..Min(Len(c), Len(d)) :
                     SubSeq(c, Len(c) - k + 1, Len(c)) = SubSeq(d, 1, k) }
    IN  CHOOSE k \in fits : \A m \in fits : m <= k

\* the latest application, when it is one of the splitter
Splits == { i \in DOMAIN nodeRes : nodeRes[i].op = "split" }

Uploads == { i \in DOMAIN http : http[i].op = "upload" /\ http[i].pdf # <<>> }

\* the upload was answered with success
Succeeded(c) == "status" \in DOMAIN c.response /\ c.response.status = "success"

\* the records the index has gained since the call started
Gained(c) == SubSeq(index, Len(c.before) + 1, Len(index))

\* C12: OCR is the fallback exactly when direct extraction yields no page
\* with non-blank text: it is never attempted when a page has text, it is
\* always attempted before ingestion fails for a document whose pages are
\* all blank, only pages whose recognized text is not empty are kept, and
\* the call fails when both paths yield nothing.
C12_OcrExactlyWhenNoText ==
    \A i \in Uploads :
        LET c == http[i]
            pdf == c.pdf[1]
            noText == \A k \in DOMAIN pdf.pages : Blank(pdf.pages[k])
            noScan == \A k \in DOMAIN pdf.scans : Blank(pdf.scans[k])
            attempted == c.ocr # "none"
        IN  /\ attempted <=> noText
            /\ (noText /\ ~ Succeeded(c)) => attempted
            /\ (attempted /\ Succeeded(c)) =>
                  /\ c.ocr = "works"
                  /\ \A j \in DOMAIN Gained(c) :
                        \E k \in DOMAIN pdf.scans :
                           /\ pdf.scans[k] # <<>>
                           /\ Contains(Gained(c)[j], pdf.scans[k])
                  /\ \A k \in DOMAIN pdf.scans :
                        ~ Blank(pdf.scans[k]) =>
                           \E j \in DOMAIN Gained(c) :
                              Contains(Gained(c)[j], pdf.scans[k])
            /\ (noText /\ (c.ocr # "works" \/ noScan)) =>
                  /\ ~ Succeeded(c)
                  /\ c.response.status = "failed"
                  /\ index = c.before

\* a scanned document was uploaded; OCR was attempted and worked, and the
\* one page on which it recognized text was ingested
C12_Witness ==
    \E i \in Uploads :
        /\ http[i].pdf = <<PDF_SCAN>>
        /\ http[i].ocr = "works"
        /\ Succeeded(http[i])
        /\ Gained(http[i]) = <<TXT_GAMMA>>

\* the decimal numeral of a count below ten
Numeral(n) ==
    << <<"0">>, <<"1">>, <<"2">>, <<"3">>, <<"4">>, <<"5">>, <<"6">>, <<"7">>,
       <<"8">>, <<"9">> >>[n + 1]

\* the upload succeeded with N >= 1 chunks: its summary is "Successfully
\* processed N text chunks", the index is what it was followed by N new
\* records, each a non-empty stretch of a page of the document, and every
\* record of the index can be retrieved
IngestedChunks(c) ==
    LET N == Len(index) - Len(c.before)
        pdf == c.pdf[1]
    IN  /\ Succeeded(c)
        /\ N >= 1
        /\ c.response.result =
              <<"S","u","c","c","e","s","s","f","u","l","l","y"," ",
                "p","r","o","c","e","s","s","e","d"," ">>
                 \o Numeral(N)
                 \o <<" ","t","e","x","t"," ","c","h","u","n","k","s">>
        /\ SubSeq(index, 1, Len(c.before)) = c.before
        /\ \A j \in DOMAIN Gained(c) :
              /\ Gained(c)[j] # <<>>
              /\ \E k \in DOMAIN pdf.pages : Contains(Gained(c)[j], pdf.pages[k])
        /\ \A j \in DOMAIN index : <<index[j]>> \in RetrieverResults(index)

\* what a run retrieved is in the index
RetrievedFromIndex ==
    \A s \in Sessions :
        "documents" \in DOMAIN wf[s].state =>
            \A d \in DOMAIN wf[s].state["documents"] :
                \E j \in DOMAIN index : index[j] = wf[s].state["documents"][d]

LatestCall == http[1]

\* C14: deleting a file through the file-management endpoint leaves the
\* index exactly as it was, the chunks ingested from that file included,
\* and all of it can still be retrieved.
C14_DeleteKeepsIndex ==
    (http # <<>> /\ LatestCall.op = "delete") =>
        /\ index = LatestCall.before
        /\ \A j \in DOMAIN index : <<index[j]>> \in RetrieverResults(index)

\* the ingested three-page document was deleted from the folder, and a
\* later run retrieved one of its chunks while the folder did not hold it
C14_Witness ==
    /\ \E i \in DOMAIN http :
          /\ http[i].op = "delete"
          /\ http[i].name = NAME_A
          /\ http[i].response.status = "success"
          /\ http[i].before = <<DOC_A, DOC_B>>
    /\ NAME_A \notin DOMAIN files
    /\ index = <<DOC_A, DOC_B>>
    /\ wf["s1"].node = "grade"
    /\ wf["s1"].folder = {}
    /\ wf["s1"].state["documents"] = <<DOC_A>>

\* the latest call is an upload whose processing raised
FailedIngestion ==
    /\ http # <<>>
    /\ LatestCall.op = "upload"
    /\ LatestCall.pdf # <<>>
    /\ "error" \in DOMAIN LatestCall.response

\* C21: when processing fails because no text can be extracted or no chunks
\* are produced, no record has been added to the index and the file is not
\* retained in the folder of uploaded documents; a listing shows no file
\* whose ingestion fails however OCR goes.
C21_FailedIngestionRejectsFile ==
    /\ FailedIngestion =>
          /\ index = LatestCall.before
          /\ ~ (/\ LatestCall.name \in DOMAIN files
                /\ files[LatestCall.name] = LatestCall.pdf[1])
    /\ (http # <<>> /\ LatestCall.op = "list") =>
          \A n \in LatestCall.response.files :
              \E ocr \in OcrOutcomes : Processed[files[n]][ocr].raised = <<>>

\* the run of s raised and the relay, on either endpoint, has seen it
RunRaised(s) == wf[s].node = "raised" /\ pc[s] \notin {"stream", "legacy_stream"}

\* the turn of s is over on either endpoint
TurnOver(s) == pc[s] \in {"recv", "legacy_recv"} /\ turn[s].over

\* what the relay had forwarded of the run when it raised
ForwardedBefore(s) == SelectSeq(sent[s], LAMBDA m : m.src # "relay")

\* the chunk the claim prescribes for an error text
PrescribedChunk(msg) ==
    IF Contains(<<"4","2","9">>, msg)
       \/ Contains(<<"R","E","S","O","U","R","C","E","_",
                     "E","X","H","A","U","S","T","E","D">>, msg)
    THEN ADVISORY
    ELSE <<"E","r","r","o","r"," ","p","r","o","c","e","s","s","i","n","g"," ",
           "r","e","q","u","e","s","t",":"," ">> \o msg

\* C22: when the run raises to the relay, on /ws/{conversation_id} or on
\* /ws, the relay sends after what it had forwarded exactly one chunk and
\* then end, and saves no assistant Message for the turn; the chunk is the
\* rate-limit advisory exactly when the error text contains "429" or
\* "RESOURCE_EXHAUSTED" and is "Error processing request: <message>"
\* otherwise; what was forwarded before stays.  The relay gives the turn up
\* only when the client has gone.
C22_RaiseAnsweredOnce ==
    \A s \in Sessions :
        RunRaised(s) =>
            LET msg == wf[s].exc[1]
                before == <<Status("LangGraph"), Status("retrieve")>>
                chunk == [type |-> "chunk", content |-> PrescribedChunk(msg),
                          src |-> "relay"]
                cid == sess[s].conversation_id
            IN  /\ ForwardedBefore(s) = before
                /\ PrescribedChunk(msg) = ADVISORY <=>
                      (Contains(RATE_429, msg) \/ Contains(RESOURCE_EXHAUSTED, msg))
                /\ pc[s] \in {"err_chunk", "legacy_err_chunk"} => sent[s] = before
                /\ pc[s] \in {"err_end", "legacy_err_end"} =>
                      sent[s] = before \o <<chunk>>
                /\ TurnOver(s) => sent[s] = before \o <<chunk, End>>
                /\ pc[s] = "closed" =>
                      /\ chan[s] = "gone"
                      /\ IsPrefix(sent[s], before \o <<chunk, End>>)
                /\ s \notin LegacySessions =>
                      \A i \in DOMAIN MessagesOf(cid) :
                          MessagesOf(cid)[i].role = "assistant" => i <= Len(turn[s].base)

\* on /ws the retriever raised a quota error and on /ws/c1 a timeout; both
\* turns are over, one with the advisory and one with the error text
C22_Witness ==
    /\ RunRaised("s1") /\ TurnOver("s1") /\ pc["s1"] = "recv"
    /\ wf["s1"].exc = <<E_TIMEOUT>>
    /\ sent["s1"][3].content = ERROR_PROCESSING \o E_TIMEOUT
    /\ messages = <<UserMessage("s1")>>
    /\ "s1" \notin LegacySessions /\ "s2" \in LegacySessions
    /\ RunRaised("s2") /\ TurnOver("s2") /\ pc["s2"] = "legacy_recv"
    /\ wf["s2"].exc = <<E_QUOTA>>
    /\ sent["s2"] = <<Status("LangGraph"), Status("retrieve"),
                      Chunk(ADVISORY, "relay"), End>>

\* the step appends an assistant Message
SavesAssistant ==
    /\ Len(messages') = Len(messages) + 1
    /\ messages'[Len(messages')].role = "assistant"

\* the user Message of the turn of s is among the rows the turn added to
\* its conversation
UserMessageSaved(s) ==
    LET rows == MessagesOf(sess[s].conversation_id) IN
    \E i \in DOMAIN rows : i > Len(turn[s].base) /\ rows[i] = UserMessage(s)

\* every row of table messages belongs to a conversation that exists
NoOrphanMessage ==
    \A i \in DOMAIN messages : messages[i].conversation_id \in conversations

\* C23: the Messages a session writes pair up per turn: when a turn saves
\* its assistant Message, the user Message of that turn was saved before and
\* is in the conversation; and no Message is ever stored for a conversation
\* identifier that does not exist.
C23_MessagesPairUp ==
    /\ []NoOrphanMessage
    /\ [][SavesAssistant =>
            \E s \in Sessions :
                /\ pc[s] = "stream"
                /\ messages'[Len(messages')] =
                      Message(sess[s].conversation_id, "assistant",
                              sess[s].assistant_response)
                /\ UserMessageSaved(s)]_vars

\* a step of chat_socket_legacy
LegacyStep ==
    \E s \in Sessions :
        \/ LegacyReceiveQuestion(s)
        \/ LegacyReceiveDisconnect(s)
        \/ LegacyRelayEvent(s)
        \/ LegacyRelayRaise(s)
        \/ LegacyRelayEnd(s)
        \/ LegacyErrChunk(s)
        \/ LegacyErrEnd(s)

\* the latest turns of a session on /ws/{conversation_id} and of a session
\* on /ws asked the same question, their runs went the same way (the same
\* retrieved chunks, model outputs and failures), and both handlers are
\* waiting for the next question
SameTurnBothEndpoints(s, l) ==
    /\ s \notin LegacySessions
    /\ l \in LegacySessions
    /\ sess[s].turns >= 1
    /\ sess[s].turns = sess[l].turns
    /\ sess[s].query = sess[l].query
    /\ wf[s] = wf[l]
    /\ pc[s] = "recv"
    /\ pc[l] = "legacy_recv"

\* C24: /ws and /ws/{conversation_id} are observationally equivalent on the
\* channel: for the same question and the same run of the workflow both have
\* sent the client the same sequence of status, chunk and end events; and no
\* step of the legacy endpoint writes a Message.
C24_EndpointsEquivalent ==
    /\ [](\A s, l \in Sessions :
             SameTurnBothEndpoints(s, l) => sent[s] = sent[l])
    /\ [][LegacyStep => messages' = messages]_vars

=============================================================================
